---- MODULE Spec2Model ----
(***************************************************************************)
(* A model of i2cpy: the I2C front object (i2cpy/__init__.py), the address *)
(* and memory-address encoders (i2cpy/driver/abc.py), the CH341 and CH347  *)
(* drivers (i2cpy/driver/ch341, i2cpy/driver/ch347) and the typed errors   *)
(* (i2cpy/errors.py).  The vendor library the drivers call is modelled as  *)
(* the environment: a set of device nodes, a set of open handles and one   *)
(* memory peripheral on the bus.                                           *)
(*                                                                         *)
(* Python values: None is the empty set and a present value x is {x}.      *)
(* Driver names are sequences of ASCII codes, so that str.lower() is a     *)
(* computation; device paths are strings built by concatenation.           *)
(***************************************************************************)
EXTENDS Integers, Sequences, FiniteSets, TLC

VARIABLES
    platform,   \* "nt" or "posix": os.name / sys.platform of the process
    life,       \* "absent" | "constructed" | "inited" | "closed": the I2C object
    driver_name,\* I2C.driver_name (ASCII codes)
    drv,        \* the driver object: cls, fd, device_path, baudrate
    nat,        \* vendor library: the open handles and what each designates
    dev,        \* the memory peripheral on the bus: addr, width, ptr, mem
    last,       \* the last call made on the object: op, args, exc, ret, calls
    nops,       \* the number of calls counted against MaxOps
    enc,        \* the last call of memaddr_to_bytes: inputs and outcome
    baudrate,   \* I2C.baudrate: the freq the object was constructed with
    dll         \* the vendor library object a driver's dll.load() returned

vars == <<platform, life, driver_name, drv, nat, dev, last, nops, enc, baudrate, dll>>

(***************************************************************************)
(* Bounds of the model.                                                    *)
(***************************************************************************)
\* addrsize arguments range over -MaxAddrsize .. MaxAddrsize
MaxAddrsize == 64

\* data buffers hold 1 .. MaxData bytes, reads ask for up to MaxData bytes
MaxData == 2

\* the memory runs make at most MaxOps calls on the object they construct
MaxOps == 2

(***************************************************************************)
(* Python values.                                                          *)
(***************************************************************************)
None == {}

Some(x) == {x}

The(o) == CHOOSE x \in o : TRUE

\* Python truthiness of an Optional[str]: None and "" are falsy.
Truthy(o) == o # None /\ The(o) # <<>>

\* a & b for b >= 0, on Python's unbounded two's-complement integers
RECURSIVE BitAnd(_, _)
BitAnd(a, b) ==
    IF b = 0 THEN 0
    ELSE (a % 2) * (b % 2) + 2 * BitAnd(a \div 2, b \div 2)

\* a >> i: floor division by 2^i
ShiftRight(a, i) == a \div (2 ^ i)

\* str.lower() on one ASCII code
LowerChar(c) == IF c >= 65 /\ c <= 90 THEN c + 32 ELSE c

\* str.lower()
Lower(s) == [k \in 1..Len(s) |-> LowerChar(s[k])]

\* str(n) for n >= 0
DigitStr == <<"0", "1", "2", "3", "4", "5", "6", "7", "8", "9">>

RECURSIVE Str(_)
Str(n) == IF n < 10 THEN DigitStr[n + 1] ELSE Str(n \div 10) \o DigitStr[(n % 10) + 1]

(***************************************************************************)
(* i2cpy/driver/abc.py                                                     *)
(***************************************************************************)
\* i2c_addr_byte: the 7-bit address shifted left, bit 0 set for a read;
\* int.to_bytes(1, "big") raises OverflowError above 255.
i2c_addr_byte(addr, is_read) ==
    LET a == addr * 2
        b == IF is_read THEN a + 1 - BitAnd(a, 1) ELSE a
    IN  IF b > 255 THEN [exc |-> "OverflowError", val |-> <<>>]
        ELSE [exc |-> "none", val |-> <<b>>]

\* to_buffer on an int: bytes([x]) raises ValueError outside range(256)
to_buffer_int(x) ==
    IF x < 0 \/ x > 255 THEN [exc |-> "ValueError", val |-> <<>>]
    ELSE [exc |-> "none", val |-> <<x>>]

\* the guard of memaddr_to_bytes, negated: the sizes it rejects
BadAddrsize_NoLowerBound(addrsize) == BitAnd(addrsize, 7) # 0 \/ addrsize > 32

BadAddrsize(addrsize) ==
    BitAnd(addrsize, 7) # 0 \/ addrsize > 32 \/ addrsize < 8

\* the list comprehension of memaddr_to_bytes with the shift sequence reversed
MemaddrByteList_LittleEndian(memaddr, addrsize) ==
    [k \in 1..(addrsize \div 8) |-> BitAnd(ShiftRight(memaddr, 8 * (k - 1)), 255)]

\* [(memaddr >> i) & 0xFF for i in range(addrsize - 8, -1, -8)]
MemaddrByteList(memaddr, addrsize) ==
    [k \in 1..(addrsize \div 8) |-> BitAnd(ShiftRight(memaddr, addrsize - 8 * k), 255)]

memaddr_to_bytes(memaddr, addrsize) ==
    IF BadAddrsize(addrsize)
    THEN [exc |-> "I2CMemoryAddressSizeError", val |-> <<>>]
    ELSE [exc |-> "none", val |-> MemaddrByteList(memaddr, addrsize)]

(***************************************************************************)
(* i2cpy/errors.py                                                         *)
(***************************************************************************)
\* I2COperationFailedError.__init__(self, operation, additional_message=None):
\* a raise without the operation argument fails in the constructor.
NewOperationFailedError(has_operation) ==
    IF has_operation THEN "I2COperationFailedError" ELSE "TypeError"

\* the subclasses of I2CError
I2CErrors ==
    {"I2CInvalidDriverError", "I2COperationFailedError",
     "I2CMemoryAddressSizeError", "I2CUnsupportedError"}

(***************************************************************************)
(* The vendor library and the bus behind it (the environment).             *)
(***************************************************************************)
\* device nodes present on a POSIX host, in the order of their index
PosixNodes == <<"/dev/ch34x_pis0", "/dev/ch34x_pis1">>

\* device indices present on a Windows host
NtNodes == {0, 1}

\* CHxxxOpenDevice(index) on Windows: the handle, or -1
NativeOpenNt(index, ok, natv) ==
    IF index \in NtNodes /\ ok
    THEN [ret |-> index, nat |-> [natv EXCEPT !.open = @ \cup {index}]]
    ELSE [ret |-> -1, nat |-> natv]

\* CH34xOpenDevice(path) on POSIX: a file descriptor above 2, or -1
NativeOpenPosix(path, ok, natv) ==
    IF (\E k \in 1..Len(PosixNodes) : PosixNodes[k] = path) /\ ok
    THEN LET k == CHOOSE j \in 1..Len(PosixNodes) : PosixNodes[j] = path
         IN  [ret |-> 2 + k, nat |-> [natv EXCEPT !.open = @ \cup {2 + k}]]
    ELSE [ret |-> -1, nat |-> natv]

\* whether fd (None or {handle}) is a handle the library holds open
HandleOpen(fd, natv) == fd # None /\ The(fd) \in natv.open

\* CHxxxSetStream(fd, speed): nonzero on success
NativeSetStream(fd, speed, ok, natv) ==
    IF HandleOpen(fd, natv) /\ ok
    THEN [ret |-> 1, nat |-> [natv EXCEPT !.speed = Some(speed)]]
    ELSE [ret |-> 0, nat |-> natv]

\* CHxxxCloseDevice(fd): nonzero on success
NativeClose(fd, ok, natv) ==
    IF HandleOpen(fd, natv) /\ ok
    THEN [ret |-> 1, nat |-> [natv EXCEPT !.open = @ \ fd]]
    ELSE [ret |-> 0, nat |-> natv]

\* the value of a big-endian byte string
RECURSIVE BigEndian(_)
BigEndian(s) ==
    IF s = <<>> THEN 0 ELSE 256 * BigEndian(SubSeq(s, 1, Len(s) - 1)) + s[Len(s)]

\* a memory cell of the peripheral; an unwritten cell reads 0xFF
MemAt(mem, loc) == IF loc \in DOMAIN mem THEN mem[loc] ELSE 255

\* One I2C transfer as the peripheral sees it: the address byte, then the
\* memory address in the peripheral's own width, most significant byte first
\* (a shorter write loads only the leading bytes of the address register),
\* then data that it stores; then rlen bytes read back from the addressed
\* location.
BusTransfer(d, wbuf, rlen) ==
    IF wbuf = <<>> \/ wbuf[1] \div 2 # d.addr
    THEN [dev |-> d, rd |-> [k \in 1..rlen |-> 255]]
    ELSE LET payload == Tail(wbuf)
             na      == IF Len(payload) < d.width \div 8
                        THEN Len(payload) ELSE d.width \div 8
             rest    == 256 ^ (d.width \div 8 - na)
             ptr     == BigEndian(SubSeq(payload, 1, na)) * rest + (d.ptr % rest)
             data    == SubSeq(payload, na + 1, Len(payload))
             locs    == {ptr + k - 1 : k \in 1..Len(data)}
             mem     == [l \in DOMAIN d.mem \cup locs |->
                            IF l \in locs THEN data[l - ptr + 1] ELSE d.mem[l]]
         IN  [dev |-> [d EXCEPT !.ptr = ptr, !.mem = mem],
              rd  |-> [k \in 1..rlen |-> MemAt(mem, ptr + k - 1)]]

\* CHxxxStreamI2C(fd, wlen, wbuf, rlen, rbuf): nonzero on success; rbuf is
\* filled only by a transfer that took place.
NativeStreamI2C(fd, wbuf, rlen, ok, natv, d) ==
    IF HandleOpen(fd, natv) /\ ok
    THEN LET t == BusTransfer(d, wbuf, rlen)
         IN  [ret |-> 1, dev |-> t.dev, rd |-> t.rd]
    ELSE [ret |-> 0, dev |-> d, rd |-> [k \in 1..rlen |-> 0]]

\* CHxxxWriteData(fd, buf, len) with a START or STOP command: nonzero on success
NativeWriteData(fd, ok, natv) == IF HandleOpen(fd, natv) /\ ok THEN 1 ELSE 0

\* CHxxxWriteRead(fd, ...) sending one byte: nonzero on success, with the
\* byte read back, whose bit 7 is clear when the peripheral acknowledged.
NativeWriteRead(fd, obyte, ok, natv, d) ==
    IF HandleOpen(fd, natv) /\ ok
    THEN [ret |-> 1, ilen |-> 1, ibyte |-> IF obyte \div 2 = d.addr THEN 0 ELSE 128]
    ELSE [ret |-> 0, ilen |-> 0, ibyte |-> 0]

(***************************************************************************)
(* The id argument: an int or a str.                                       *)
(***************************************************************************)
IdInt(n) == [t |-> "int", n |-> n, s |-> ""]

IdStr(s) == [t |-> "str", n |-> 0, s |-> s]

\* one entry of the log of vendor-library calls an operation made
Call(fn, args, ret) == [fn |-> fn, args |-> args, ret |-> ret]

(***************************************************************************)
(* BaudRate.from_number (the same in both drivers)                         *)
(***************************************************************************)
BaudRate_from_number(freq) ==
    IF freq >= 750000 THEN 3
    ELSE IF freq >= 400000 THEN 2
    ELSE IF freq >= 100000 THEN 1
    ELSE 0

(***************************************************************************)
(* i2cpy/driver/ch341/__init__.py                                          *)
(***************************************************************************)
\* CH341._check_ret raises I2COperationFailedError() with no argument
CH341_check_ret(result) ==
    IF result = 0 THEN NewOperationFailedError(FALSE) ELSE "none"

CH341_new(id, freq, plat) ==
    LET id1 == IF id # None THEN id
               ELSE IF plat = "nt" THEN Some(IdInt(0))
               ELSE Some(IdStr("/dev/ch34x_pis0"))
    IN  IF plat = "nt"
        THEN [cls |-> "CH341", fd |-> Some(The(id1).n), device_path |-> None,
              baudrate |-> BaudRate_from_number(freq)]
        ELSE [cls |-> "CH341", fd |-> Some(-1), device_path |-> id1,
              baudrate |-> BaudRate_from_number(freq)]

CH341_init_nt(d, natv, oks) ==
    LET o == NativeOpenNt(The(d.fd), oks[1], natv)
        c1 == Call("OpenDevice", <<IdInt(The(d.fd))>>, o.ret)
    IN  IF o.ret # -1
        THEN LET st == NativeSetStream(d.fd, d.baudrate, oks[2], o.nat)
             IN  [exc |-> CH341_check_ret(st.ret),
                  calls |-> <<c1, Call("SetStream", <<d.fd, d.baudrate>>, st.ret)>>,
                  nat |-> st.nat, drv |-> d]
        ELSE [exc |-> "OSError", calls |-> <<c1>>, nat |-> o.nat, drv |-> d]

\* the path CH341._init_posix hands to the open call
CH341_posix_open_path(d) == "/dev/ch34x_pis0"

CH341_init_posix(d, natv, oks) ==
    LET path == CH341_posix_open_path(d)
        o == NativeOpenPosix(path, oks[1], natv)
        c1 == Call("OpenDevice", <<IdStr(path)>>, o.ret)
    IN  IF o.ret > 0
        THEN LET d1 == [d EXCEPT !.fd = Some(o.ret)]
                 st == NativeSetStream(d1.fd, d1.baudrate, oks[2], o.nat)
             IN  [exc |-> CH341_check_ret(st.ret),
                  calls |-> <<c1, Call("GetChipVersion", <<d1.fd>>, 1),
                              Call("SetStream", <<d1.fd, d1.baudrate>>, st.ret)>>,
                  nat |-> st.nat, drv |-> d1]
        ELSE [exc |-> "OSError", calls |-> <<c1>>, nat |-> o.nat, drv |-> d]

CH341_init(d, plat, natv, oks) ==
    IF plat = "nt" THEN CH341_init_nt(d, natv, oks) ELSE CH341_init_posix(d, natv, oks)

CH341_deinit(d, natv, oks) ==
    LET c == NativeClose(d.fd, oks[1], natv)
    IN  [exc |-> CH341_check_ret(c.ret),
         calls |-> <<Call("CloseDevice", <<d.fd>>, c.ret)>>,
         nat |-> c.nat, drv |-> d]

(***************************************************************************)
(* i2cpy/driver/ch347/__init__.py                                          *)
(***************************************************************************)
\* CH347._check_ret raises I2COperationFailedError(operation)
CH347_check_ret(result) ==
    IF result = 0 THEN NewOperationFailedError(TRUE) ELSE "none"

CH347_new(id, freq, plat) ==
    LET id1 == IF id = None THEN IdInt(0) ELSE The(id)
    IN  IF plat = "nt"
        THEN [cls |-> "CH347", fd |-> Some(id1.n), device_path |-> None,
              baudrate |-> BaudRate_from_number(freq)]
        ELSE [cls |-> "CH347", fd |-> None,
              device_path |-> Some(IdStr(IF id1.t = "int"
                                         THEN "/dev/ch34x_pis" \o Str(id1.n)
                                         ELSE id1.s)),
              baudrate |-> BaudRate_from_number(freq)]

CH347_init_nt(d, natv, oks) ==
    LET o == NativeOpenNt(The(d.fd), oks[1], natv)
        c1 == Call("OpenDevice", <<IdInt(The(d.fd))>>, o.ret)
    IN  [exc |-> IF o.ret # -1 THEN "none" ELSE NewOperationFailedError(TRUE),
         calls |-> <<c1>>, nat |-> o.nat, drv |-> d]

CH347_init_posix(d, natv, oks) ==
    LET path == The(d.device_path).s
        o == NativeOpenPosix(path, oks[1], natv)
        c1 == Call("OpenDevice", <<IdStr(path)>>, o.ret)
    IN  IF o.ret > 0
        THEN LET d1 == [d EXCEPT !.fd = Some(o.ret)]
             IN  [exc |-> "none",
                  calls |-> <<c1, Call("GetChipVersion", <<d1.fd>>, 1)>>,
                  nat |-> o.nat, drv |-> d1]
        ELSE [exc |-> NewOperationFailedError(TRUE), calls |-> <<c1>>,
              nat |-> o.nat, drv |-> d]

CH347_init(d, plat, natv, oks) ==
    IF plat = "nt" THEN CH347_init_nt(d, natv, oks) ELSE CH347_init_posix(d, natv, oks)

CH347_deinit(d, natv, oks) ==
    LET c == NativeClose(d.fd, oks[1], natv)
    IN  [exc |-> CH347_check_ret(c.ret),
         calls |-> <<Call("CloseDevice", <<d.fd>>, c.ret)>>,
         nat |-> c.nat, drv |-> d]

(***************************************************************************)
(* The transfer methods, which the two driver classes spell alike but for  *)
(* _check_ret and readfrom_mem_into.                                       *)
(***************************************************************************)
driver_check_ret(d, result) ==
    IF d.cls = "CH341" THEN CH341_check_ret(result) ELSE CH347_check_ret(result)

\* _writeread_into(buf, rbuf): rlen is None for rbuf None, else {len(rbuf)};
\* rbuf enters zeroed (bytearray(n)) and is what the transfer left in it.
driver_writeread_into(d, wbuf, rlen, natv, devv, ok) ==
    LET nbytes == IF rlen = None THEN 0 ELSE The(rlen)
        r == NativeStreamI2C(d.fd, wbuf, nbytes, ok, natv, devv)
    IN  [exc |-> driver_check_ret(d, r.ret), rbuf |-> r.rd,
         calls |-> <<Call("StreamI2C", <<d.fd, Len(wbuf), wbuf, nbytes>>, r.ret)>>,
         dev |-> r.dev]

\* the outcome of a method that raised before any vendor-library call
Raised(exc, devv) == [exc |-> exc, rbuf |-> <<>>, calls |-> <<>>, dev |-> devv]

\* readfrom_into asking the library for one byte when the buffer is empty
driver_readfrom_into_AtLeastOne(d, addr, n, natv, devv, ok) ==
    LET ab == i2c_addr_byte(addr, FALSE)
    IN  IF ab.exc # "none" THEN Raised(ab.exc, devv)
        ELSE driver_writeread_into(d, ab.val, Some(IF n = 0 THEN 1 ELSE n),
                                   natv, devv, ok)

\* readfrom_into(addr, buf) with len(buf) = n; I2CDriverBase.readfrom hands
\* it bytearray(n) and returns bytes(buf)
driver_readfrom_into(d, addr, n, natv, devv, ok) ==
    LET ab == i2c_addr_byte(addr, FALSE)
    IN  IF ab.exc # "none" THEN Raised(ab.exc, devv)
        ELSE driver_writeread_into(d, ab.val, Some(n), natv, devv, ok)

driver_writeto(d, addr, buf, natv, devv, ok) ==
    LET ab == i2c_addr_byte(addr, FALSE)
    IN  IF ab.exc # "none" THEN Raised(ab.exc, devv)
        ELSE driver_writeread_into(d, ab.val \o buf, None, natv, devv, ok)

\* CH341.readfrom_mem_into: the memory address goes through to_buffer
CH341_mem_wbuf(memaddr, addrsize) == to_buffer_int(memaddr)

\* CH347.readfrom_mem_into: the memory address goes through memaddr_to_bytes
CH347_mem_wbuf(memaddr, addrsize) == memaddr_to_bytes(memaddr, addrsize)

driver_readfrom_mem_into(d, addr, memaddr, n, addrsize, natv, devv, ok) ==
    LET ab == i2c_addr_byte(addr, FALSE)
        mb == IF d.cls = "CH341" THEN CH341_mem_wbuf(memaddr, addrsize)
              ELSE CH347_mem_wbuf(memaddr, addrsize)
    IN  IF ab.exc # "none" THEN Raised(ab.exc, devv)
        ELSE IF mb.exc # "none" THEN Raised(mb.exc, devv)
        ELSE driver_writeread_into(d, ab.val \o mb.val, Some(n), natv, devv, ok)

\* check_device with _stop after the try block and not in a finally clause
driver_check_device_NoFinally(d, addr, natv, devv, oks) ==
    LET sta == NativeWriteData(d.fd, oks[1], natv)
        c1  == Call("WriteData", <<d.fd, "START">>, sta)
        e1  == driver_check_ret(d, sta)
        ab  == i2c_addr_byte(addr, FALSE)
        wr  == NativeWriteRead(d.fd, ab.val[1], oks[2], natv, devv)
        c2  == Call("WriteRead", <<d.fd, ab.val>>, wr.ret)
        e2  == IF ab.exc # "none" THEN ab.exc ELSE driver_check_ret(d, wr.ret)
        ack == wr.ilen > 0 /\ BitAnd(wr.ibyte, 128) = 0
        sto == NativeWriteData(d.fd, oks[3], natv)
        c3  == Call("WriteData", <<d.fd, "STOP">>, sto)
        e3  == driver_check_ret(d, sto)
    IN  IF e1 # "none" THEN [exc |-> e1, ack |-> FALSE, calls |-> <<c1>>]
        ELSE IF e2 # "none"
        THEN [exc |-> e2, ack |-> FALSE,
              calls |-> IF ab.exc # "none" THEN <<c1>> ELSE <<c1, c2>>]
        ELSE [exc |-> e3, ack |-> e3 = "none" /\ ack, calls |-> <<c1, c2, c3>>]

\* check_device: _start, then (try) _out_byte_check_ack, (finally) _stop
driver_check_device(d, addr, natv, devv, oks) ==
    LET sta == NativeWriteData(d.fd, oks[1], natv)
        c1  == Call("WriteData", <<d.fd, "START">>, sta)
        e1  == driver_check_ret(d, sta)
        ab  == i2c_addr_byte(addr, FALSE)
        wr  == NativeWriteRead(d.fd, ab.val[1], oks[2], natv, devv)
        c2  == Call("WriteRead", <<d.fd, ab.val>>, wr.ret)
        e2  == IF ab.exc # "none" THEN ab.exc ELSE driver_check_ret(d, wr.ret)
        ack == wr.ilen > 0 /\ BitAnd(wr.ibyte, 128) = 0
        sto == NativeWriteData(d.fd, oks[3], natv)
        c3  == Call("WriteData", <<d.fd, "STOP">>, sto)
        e3  == driver_check_ret(d, sto)
    IN  IF e1 # "none" THEN [exc |-> e1, ack |-> FALSE, calls |-> <<c1>>]
        ELSE [exc   |-> IF e3 # "none" THEN e3 ELSE e2,
              ack   |-> e2 = "none" /\ e3 = "none" /\ ack,
              calls |-> IF ab.exc # "none" THEN <<c1, c3>> ELSE <<c1, c2, c3>>]

\* the methods a driver object answers to: those of I2CDriverBase and of the class
DriverMethods(d) ==
    {"init", "deinit", "readfrom", "readfrom_into", "writeto",
     "readfrom_mem_into", "check_device",
     "_init_nt", "_init_posix", "_writeread_into", "_write",
     "_start", "_stop", "_out_byte_check_ack", "_check_ret"}

driver_init(d, plat, natv, oks) ==
    IF d.cls = "CH341" THEN CH341_init(d, plat, natv, oks)
    ELSE CH347_init(d, plat, natv, oks)

driver_deinit(d, natv, oks) ==
    IF d.cls = "CH341" THEN CH341_deinit(d, natv, oks) ELSE CH347_deinit(d, natv, oks)

(***************************************************************************)
(* i2cpy/__init__.py: the I2C class                                        *)
(***************************************************************************)
Ch341Name == <<99, 104, 51, 52, 49>>      \* "ch341"

Ch347Name == <<99, 104, 51, 52, 55>>      \* "ch347"

AbcName == <<97, 98, 99>>                 \* "abc": i2cpy.driver.abc, no driver

\* the precedence with the environment variable ahead of the argument
ChooseDriverName_EnvFirst(driver, env) ==
    Lower(IF Truthy(env) THEN The(env)
          ELSE IF Truthy(driver) THEN The(driver)
          ELSE Ch341Name)

\* (driver or os.getenv("I2CPY_DRIVER") or "ch341").lower()
ChooseDriverName(driver, env) ==
    Lower(IF Truthy(driver) THEN The(driver)
          ELSE IF Truthy(env) THEN The(env)
          ELSE Ch341Name)

\* import_module("i2cpy.driver.<name>"): the driver modules load the vendor
\* library when imported (dll.py: ch341dll = load()), which raises OSError
\* when the library is not installed.
ImportDriverModule(name, lib_ok) ==
    IF name \in {Ch341Name, Ch347Name}
    THEN IF lib_ok THEN "none" ELSE "OSError"
    ELSE IF name = AbcName THEN "none"
    ELSE "ModuleNotFoundError"

\* a failed import let through as it is
ImportFailure_Unwrapped(exc) == exc

\* what I2C.__init__ makes of a failed import
ImportFailure(exc) ==
    IF exc \in {"ModuleNotFoundError", "ImportError"} THEN "I2CInvalidDriverError" ELSE exc

\* driver_module.driver_class()(id=id, freq=freq)
NewDriver(name, id, freq, plat) ==
    IF name = Ch341Name THEN CH341_new(id, freq, plat) ELSE CH347_new(id, freq, plat)

NoDriver == [cls |-> "none", fd |-> None, device_path |-> None, baudrate |-> 0]

\* I2C.__init__ with self.init() run whatever auto_init says
I2C_new_AlwaysInit(id, driver, env, freq, auto_init, plat, natv, lib_ok, oks) ==
    LET name == ChooseDriverName(driver, env)
        imp  == ImportDriverModule(name, lib_ok)
        c0   == Call("import_module", <<name>>, IF imp = "none" THEN 1 ELSE 0)
    IN  IF imp # "none"
        THEN [exc |-> ImportFailure(imp), exc_arg |-> Lower(name), name |-> name,
              calls |-> <<c0>>, nat |-> natv, drv |-> NoDriver, life |-> "absent"]
        ELSE IF name = AbcName
        THEN [exc |-> "AttributeError", exc_arg |-> <<>>, name |-> name,
              calls |-> <<c0>>, nat |-> natv, drv |-> NoDriver, life |-> "absent"]
        ELSE LET d == NewDriver(name, id, freq, plat)
                 r == driver_init(d, plat, natv, oks)
             IN  IF r.exc # "none"
                 THEN [exc |-> r.exc, exc_arg |-> <<>>, name |-> name,
                       calls |-> <<c0>> \o r.calls, nat |-> r.nat,
                       drv |-> NoDriver, life |-> "absent"]
                 ELSE [exc |-> "none", exc_arg |-> <<>>, name |-> name,
                       calls |-> <<c0>> \o r.calls, nat |-> r.nat,
                       drv |-> r.drv, life |-> "inited"]

\* I2C.__init__
I2C_new(id, driver, env, freq, auto_init, plat, natv, lib_ok, oks) ==
    LET name == ChooseDriverName(driver, env)
        imp  == ImportDriverModule(name, lib_ok)
        c0   == Call("import_module", <<name>>, IF imp = "none" THEN 1 ELSE 0)
    IN  IF imp # "none"
        THEN [exc |-> ImportFailure(imp), exc_arg |-> Lower(name), name |-> name,
              calls |-> <<c0>>, nat |-> natv, drv |-> NoDriver, life |-> "absent"]
        ELSE IF name = AbcName
        THEN [exc |-> "AttributeError", exc_arg |-> <<>>, name |-> name,
              calls |-> <<c0>>, nat |-> natv, drv |-> NoDriver, life |-> "absent"]
        ELSE LET d == NewDriver(name, id, freq, plat)
                 r == driver_init(d, plat, natv, oks)
             IN  IF ~auto_init
                 THEN [exc |-> "none", exc_arg |-> <<>>, name |-> name,
                       calls |-> <<c0>>, nat |-> natv, drv |-> d,
                       life |-> "constructed"]
                 ELSE IF r.exc # "none"
                 THEN [exc |-> r.exc, exc_arg |-> <<>>, name |-> name,
                       calls |-> <<c0>> \o r.calls, nat |-> r.nat,
                       drv |-> NoDriver, life |-> "absent"]
                 ELSE [exc |-> "none", exc_arg |-> <<>>, name |-> name,
                       calls |-> <<c0>> \o r.calls, nat |-> r.nat,
                       drv |-> r.drv, life |-> "inited"]

\* I2C.writeto_mem: memaddr_to_bytes(memaddr, addrsize) + buf, then writeto
I2C_writeto_mem(d, addr, memaddr, buf, addrsize, natv, devv, ok) ==
    LET mb == memaddr_to_bytes(memaddr, addrsize)
    IN  IF mb.exc # "none" THEN Raised(mb.exc, devv)
        ELSE driver_writeto(d, addr, mb.val \o buf, natv, devv, ok)

\* the comprehension of I2C.scan from address a on; a check_device that
\* raises ends it, so at most the last address probed meets a failing call
RECURSIVE ScanFrom(_, _, _, _, _, _, _)
ScanFrom(d, a, stop, natv, devv, fail_at, oks) ==
    IF a > stop THEN [exc |-> "none", ret |-> <<>>, calls |-> <<>>]
    ELSE LET r == driver_check_device(d, a, natv, devv,
                      IF a = fail_at THEN oks ELSE <<TRUE, TRUE, TRUE>>)
         IN  IF r.exc # "none"
             THEN [exc |-> r.exc, ret |-> <<>>, calls |-> r.calls]
             ELSE LET rest == ScanFrom(d, a + 1, stop, natv, devv, fail_at, oks)
                  IN  [exc |-> rest.exc,
                       ret |-> IF rest.exc # "none" THEN <<>>
                               ELSE (IF r.ack THEN <<a>> ELSE <<>>) \o rest.ret,
                       calls |-> r.calls \o rest.calls]

\* I2C.scan: self.driver.supports_scan() comes first; the raise of
\* I2CUnsupportedError needs that call to return, and no class defines it
I2C_scan(d, start, stop, natv, devv, fail_at, oks) ==
    IF "supports_scan" \notin DriverMethods(d)
    THEN [exc |-> "AttributeError", ret |-> <<>>, calls |-> <<>>]
    ELSE ScanFrom(d, start, stop, natv, devv, fail_at, oks)

(***************************************************************************)
(* i2cpy/driver/ch341/dll.py and i2cpy/driver/ch347/dll.py                 *)
(*                                                                         *)
(* A function name is the pair of its five-letter prefix and the rest, so  *)
(* "CH347WiteData" is <<"CH347", "WiteData">>.  A library is the set of    *)
(* names it exports; the object load() returns answers to those and to     *)
(* the names load() set on it.                                             *)
(***************************************************************************)
\* re.sub(r"^<from>", "CH34x", fname)
ReSubPrefix(from, fname) == IF fname[1] = from THEN <<"CH34x", fname[2]>> ELSE fname

\* the list funcs of ch341/dll.py
CH341_funcs ==
    <<<<"CH341", "OpenDevice">>, <<"CH341", "CloseDevice">>, <<"CH341", "SetStream">>,
      <<"CH341", "StreamI2C">>, <<"CH341", "WriteData">>, <<"CH341", "WriteRead">>>>

\* the list funcs of ch347/dll.py
CH347_funcs ==
    <<<<"CH347", "OpenDevice">>, <<"CH347", "CloseDevice">>, <<"CH347", "StreamI2C">>,
      <<"CH347", "WiteData">>, <<"CH347", "WriteRead">>>>

\* the loop of ch341.dll.load over funcs from entry k on: a name found under
\* neither prefix ends it in AttributeError (getattr without a default)
RECURSIVE CH341_alias(_, _)
CH341_alias(attrs, k) ==
    IF k > Len(CH341_funcs) THEN [exc |-> "none", attrs |-> attrs]
    ELSE LET fname  == CH341_funcs[k]
             fname2 == ReSubPrefix("CH341", fname)
         IN  IF fname \in attrs THEN CH341_alias(attrs, k + 1)
             ELSE IF fname2 \notin attrs THEN [exc |-> "AttributeError", attrs |-> attrs]
             ELSE CH341_alias(attrs \cup {fname}, k + 1)

\* ch341.dll.load(): the names the returned library object answers to
CH341_load(plat, exports) ==
    IF plat = "nt" THEN [exc |-> "none", attrs |-> exports]
    ELSE LET r == CH341_alias(exports, 1)
         IN  IF r.exc # "none" THEN r
             ELSE IF {<<"CH34x", "OpenDevice">>, <<"CH341", "OpenDevice">>,
                      <<"CH34x", "SetStream">>, <<"CH341", "SetStream">>} \subseteq r.attrs
             THEN r
             ELSE [exc |-> "AttributeError", attrs |-> r.attrs]

\* the loop of ch347.dll.load over funcs from entry k on: a name found under
\* neither prefix is passed over (getattr with the default None)
RECURSIVE CH347_alias(_, _)
CH347_alias(attrs, k) ==
    IF k > Len(CH347_funcs) THEN attrs
    ELSE LET fname  == CH347_funcs[k]
             fname2 == ReSubPrefix("CH347", fname)
         IN  IF fname \in attrs THEN CH347_alias(attrs, k + 1)
             ELSE IF fname2 \notin attrs THEN CH347_alias(attrs, k + 1)
             ELSE CH347_alias(attrs \cup {fname}, k + 1)

\* ch347.dll.load(): the names the returned library object answers to
CH347_load(plat, exports) ==
    IF plat = "nt" THEN [exc |-> "none", attrs |-> exports]
    ELSE IF {<<"CH34x", "OpenDevice">>, <<"CH34x", "SetStream">>} \subseteq exports
    THEN [exc |-> "none", attrs |-> CH347_alias(exports, 1)]
    ELSE [exc |-> "AttributeError", attrs |-> exports]

dll_load(cls, plat, exports) ==
    IF cls = "CH341" THEN CH341_load(plat, exports) ELSE CH347_load(plat, exports)

\* the names class CH341 looks up on ch341dll
CH341_called(plat) ==
    {<<"CH341", "OpenDevice">>, <<"CH341", "CloseDevice">>, <<"CH341", "StreamI2C">>,
     <<"CH341", "WriteData">>, <<"CH341", "WriteRead">>}
    \cup (IF plat = "nt" THEN {<<"CH341", "SetStream">>}
          ELSE {<<"CH34x", "_GetChipVersion">>, <<"CH34x", "SetStream">>})

\* the names class CH347 looks up on ch347dll
CH347_called(plat) ==
    {<<"CH347", "OpenDevice">>, <<"CH347", "CloseDevice">>, <<"CH347", "StreamI2C">>,
     <<"CH347", "WriteData">>, <<"CH347", "WriteRead">>}
    \cup (IF plat = "nt" THEN {} ELSE {<<"CH34x", "_GetChipVersion">>})

driver_called(cls, plat) ==
    IF cls = "CH341" THEN CH341_called(plat) ELSE CH347_called(plat)

(***************************************************************************)
(* Inputs.                                                                 *)
(***************************************************************************)
Booleans3 == {<<a, b, c>> : a \in BOOLEAN, b \in BOOLEAN, c \in BOOLEAN}

Booleans2 == {<<a, b>> : a \in BOOLEAN, b \in BOOLEAN}

\* the two memory boards of the test bench: 0x51 (one address byte) and
\* 0x52 (two address bytes); one of them is on the bus
Peripherals ==
    {[addr |-> 81, width |-> 8, ptr |-> 0, mem |-> <<>>],
     [addr |-> 82, width |-> 16, ptr |-> 0, mem |-> <<>>]}

Addrs == {81, 82}

\* 0x10 and 0x0110
Memaddrs == {16, 272}

OpAddrsizes == {8, 16}

\* 0x55 and 0xAA
DataBytes == {85, 170}

\* the test patterns 55 AA 55 .. and AA 55 AA .., of every length
Datas ==
    {[k \in 1..n |-> IF k % 2 = 1 THEN b ELSE 255 - b] :
        n \in 1..MaxData, b \in DataBytes}

ScanStarts == {80, 82}

ScanStops == {81, 83}

IntIds == {1, 999}

StrIds == {"/dev/ch34x_pis1", "/dev/null"}

Ids(plat) ==
    {None} \cup {Some(IdInt(n)) : n \in IntIds}
           \cup (IF plat = "posix" THEN {Some(IdStr(p)) : p \in StrIds} ELSE {})

\* None, "", "ch341", "CH347", "Ch341", "Bad", "abc"
DriverArgs ==
    {None, Some(<<>>), Some(Ch341Name), Some(<<67, 72, 51, 52, 55>>),
     Some(<<67, 104, 51, 52, 49>>), Some(<<66, 97, 100>>), Some(AbcName)}

\* I2CPY_DRIVER: undefined, "", "CH347", "nope"
EnvValues ==
    {None, Some(<<>>), Some(<<67, 72, 51, 52, 55>>), Some(<<110, 111, 112, 101>>)}

Freqs == {400000}

\* the freq values on both sides of each threshold of BaudRate.from_number
BusFreqs == {0, 20000, 99999, 100000, 399999, 400000, 749999, 750000, 1000000}

\* the addresses check_device is given: the two boards and one past 7 bits
CheckAddrs == {81, 82, 128}

\* the 7-bit addresses transfers are sent to: both ends of the range and
\* 42, the address of the module's example; no board answers at these
XferAddrs == {0, 42, 127}

\* of these, the addresses memory transfers are sent to
MemXferAddrs == {0, 127}

\* writes that point the peripheral at 0x10 or 0x11 and store 55 AA or AA
\* there, for one and for two address bytes
SeedWrites ==
    {<<16>>, <<17>>, <<16, 85, 170>>, <<17, 170>>,
     <<0, 16>>, <<0, 17>>, <<0, 16, 85, 170>>, <<0, 17, 170>>}

\* the buffers readfrom_into is given: of every length, holding 00 or 11
CallerBufs == {[k \in 1..n |-> b] : n \in 0..MaxData, b \in {0, 17}}

\* the functions of the vendor library, as libch347.so names them
Ch34xNames ==
    {<<"CH34x", "OpenDevice">>, <<"CH34x", "CloseDevice">>, <<"CH34x", "SetStream">>,
     <<"CH34x", "StreamI2C">>, <<"CH34x", "WriteData">>, <<"CH34x", "WriteRead">>,
     <<"CH34x", "_GetChipVersion">>}

\* the same functions as the Windows library of a driver names them
OwnNames(cls) ==
    {<<IF cls = "CH341" THEN "CH341" ELSE "CH347", n[2]>> :
        n \in Ch34xNames \ {<<"CH34x", "_GetChipVersion">>}}

\* the libraries load() meets: any part of the CH34x names, or those and
\* the driver's own
LibExports(cls) ==
    (SUBSET Ch34xNames) \cup {Ch34xNames \cup OwnNames(cls), OwnNames(cls)}

\* the sizes and addresses memaddr_to_bytes is applied to
EncAddrsizes == (0 - MaxAddrsize)..MaxAddrsize

\* 0, 0x2A, 0xFF, 0x100, 0x0110, 0xC52A, 0xFFFF, 0x10000, 0xFFFFFF,
\* 0x1000000, 0x7B3EC52A, 0x7FFFFFFF
EncMemaddrs ==
    {0, 42, 255, 256, 272, 50474, 65535, 65536, 16777215, 16777216,
     2067711274, 2147483647}

(***************************************************************************)
(* The state machine.                                                      *)
(***************************************************************************)
NoCall ==
    [op |-> "none", args |-> <<>>, pre |-> "absent", exc |-> "none",
     ret |-> <<>>, calls |-> <<>>]

NoEnc == [called |-> FALSE, memaddr |-> 0, addrsize |-> 8,
          out |-> [exc |-> "none", val |-> <<>>]]

NoDll == [loaded |-> FALSE, cls |-> "none", exports |-> {},
          out |-> [exc |-> "none", attrs |-> {}]]

Init ==
    /\ platform \in {"nt", "posix"}
    /\ life = "absent"
    /\ driver_name = <<>>
    /\ drv = NoDriver
    /\ nat = [open |-> {}, speed |-> None]
    /\ dev \in Peripherals
    /\ last = NoCall
    /\ nops = 0
    /\ enc = NoEnc
    /\ baudrate = 0
    /\ dll = NoDll

\* i2c = I2C(id, driver=..., freq=..., auto_init=...)
\* (each behaviour follows one I2C object from its construction on)
Construct(id, driver, env, freq, auto_init, lib_ok, oks) ==
    /\ life = "absent"
    /\ last.op = "none"
    /\ LET r == I2C_new(id, driver, env, freq, auto_init, platform, nat, lib_ok, oks)
       IN  /\ life' = r.life
           /\ driver_name' = IF r.life = "absent" THEN driver_name ELSE r.name
           /\ drv' = r.drv
           /\ nat' = r.nat
           /\ last' = [op |-> "I2C",
                       args |-> [id |-> id, driver |-> driver, env |-> env,
                                 freq |-> freq, auto_init |-> auto_init],
                       pre |-> life, exc |-> r.exc, ret |-> r.exc_arg,
                       calls |-> r.calls]
           /\ baudrate' = IF r.life = "absent" THEN baudrate ELSE freq
    /\ UNCHANGED <<platform, dll, dev, nops, enc>>

\* i2c.init()
InitBus(oks) ==
    /\ life # "absent"
    /\ LET r == driver_init(drv, platform, nat, oks)
       IN  /\ life' = IF r.exc = "none" THEN "inited"
                      ELSE IF life = "closed" THEN "constructed" ELSE life
           /\ drv' = r.drv
           /\ nat' = r.nat
           /\ last' = [op |-> "init", args |-> <<>>, pre |-> life, exc |-> r.exc,
                       ret |-> <<>>, calls |-> r.calls]
    /\ UNCHANGED <<platform, baudrate, dll, driver_name, dev, nops, enc>>

\* i2c.deinit()
Deinit(oks) ==
    /\ life # "absent"
    /\ LET r == driver_deinit(drv, nat, oks)
       IN  /\ life' = IF r.exc = "none" THEN "closed" ELSE life
           /\ nat' = r.nat
           /\ last' = [op |-> "deinit", args |-> <<>>, pre |-> life, exc |-> r.exc,
                       ret |-> <<>>, calls |-> r.calls]
    /\ UNCHANGED <<platform, baudrate, dll, driver_name, drv, dev, nops, enc>>

\* i2c.readfrom(addr, nbytes)
ReadFrom(addr, nbytes, ok) ==
    /\ life # "absent"
    /\ LET r == driver_readfrom_into(drv, addr, nbytes, nat, dev, ok)
       IN  /\ dev' = r.dev
           /\ last' = [op |-> "readfrom", args |-> [addr |-> addr, nbytes |-> nbytes],
                       pre |-> life, exc |-> r.exc,
                       ret |-> IF r.exc = "none" THEN r.rbuf ELSE <<>>,
                       calls |-> r.calls]
    /\ UNCHANGED <<platform, baudrate, dll, life, driver_name, drv, nat, nops, enc>>

\* i2c.readfrom_into(addr, buf): ret is what buf holds afterwards, its old
\* contents when the call raised
ReadFromInto(addr, buf, ok) ==
    /\ life # "absent"
    /\ LET r == driver_readfrom_into(drv, addr, Len(buf), nat, dev, ok)
       IN  /\ dev' = r.dev
           /\ last' = [op |-> "readfrom_into", args |-> [addr |-> addr, buf |-> buf],
                       pre |-> life, exc |-> r.exc,
                       ret |-> IF r.exc = "none" THEN r.rbuf ELSE buf,
                       calls |-> r.calls]
    /\ UNCHANGED <<platform, baudrate, dll, life, driver_name, drv, nat, nops, enc>>

\* i2c.writeto(addr, buf)
WriteTo(addr, buf, ok) ==
    /\ life # "absent"
    /\ LET r == driver_writeto(drv, addr, buf, nat, dev, ok)
       IN  /\ dev' = r.dev
           /\ last' = [op |-> "writeto", args |-> [addr |-> addr, buf |-> buf],
                       pre |-> life, exc |-> r.exc, ret |-> <<>>, calls |-> r.calls]
    /\ UNCHANGED <<platform, baudrate, dll, life, driver_name, drv, nat, nops, enc>>

\* i2c.readfrom_mem(addr, memaddr, nbytes, addrsize=addrsize); args.after is
\* the writeto_mem call that returned just before this one, if that is what
\* came before
ReadFromMemCall(addr, memaddr, nbytes, addrsize, ok) ==
    /\ life # "absent"
    /\ LET r == driver_readfrom_mem_into(drv, addr, memaddr, nbytes, addrsize,
                                         nat, dev, ok)
       IN  /\ dev' = r.dev
           /\ last' = [op |-> "readfrom_mem",
                       args |-> [addr |-> addr, memaddr |-> memaddr,
                                 nbytes |-> nbytes, addrsize |-> addrsize,
                                 after |-> IF last.op = "writeto_mem" /\ last.exc = "none"
                                           THEN Some(last.args) ELSE None],
                       pre |-> life, exc |-> r.exc,
                       ret |-> IF r.exc = "none" THEN r.rbuf ELSE <<>>,
                       calls |-> r.calls]
    /\ UNCHANGED <<platform, baudrate, dll, life, driver_name, drv, nat, enc>>

\* i2c.writeto_mem(addr, memaddr, buf, addrsize=addrsize)
WriteToMemCall(addr, memaddr, buf, addrsize, ok) ==
    /\ life # "absent"
    /\ LET r == I2C_writeto_mem(drv, addr, memaddr, buf, addrsize, nat, dev, ok)
       IN  /\ dev' = r.dev
           /\ last' = [op |-> "writeto_mem",
                       args |-> [addr |-> addr, memaddr |-> memaddr, buf |-> buf,
                                 addrsize |-> addrsize],
                       pre |-> life, exc |-> r.exc, ret |-> <<>>, calls |-> r.calls]
    /\ UNCHANGED <<platform, baudrate, dll, life, driver_name, drv, nat, enc>>

ReadFromMem(addr, memaddr, nbytes, addrsize, ok) ==
    ReadFromMemCall(addr, memaddr, nbytes, addrsize, ok) /\ UNCHANGED nops

WriteToMem(addr, memaddr, buf, addrsize, ok) ==
    WriteToMemCall(addr, memaddr, buf, addrsize, ok) /\ UNCHANGED nops

\* the same two calls, counted against MaxOps
CountedReadFromMem(addr, memaddr, nbytes, addrsize, ok) ==
    /\ nops < MaxOps
    /\ ReadFromMemCall(addr, memaddr, nbytes, addrsize, ok)
    /\ nops' = nops + 1

CountedWriteToMem(addr, memaddr, buf, addrsize, ok) ==
    /\ nops < MaxOps
    /\ WriteToMemCall(addr, memaddr, buf, addrsize, ok)
    /\ nops' = nops + 1

\* the outcomes of the vendor-library calls a scan can meet: none when it
\* raises before the first probe
ScanOutcomes(d) ==
    IF "supports_scan" \in DriverMethods(d) THEN Booleans3 ELSE {<<TRUE, TRUE, TRUE>>}

\* i2c.scan(start, stop)
Scan(start, stop, fail_at, oks) ==
    /\ life # "absent"
    /\ LET r == I2C_scan(drv, start, stop, nat, dev, fail_at, oks)
       IN  last' = [op |-> "scan", args |-> [start |-> start, stop |-> stop],
                    pre |-> life, exc |-> r.exc, ret |-> r.ret, calls |-> r.calls]
    /\ UNCHANGED <<platform, baudrate, dll, life, driver_name, drv, nat, dev, nops, enc>>

\* i2c.driver.check_device(addr)
CheckDevice(addr, oks) ==
    /\ life # "absent"
    /\ LET r == driver_check_device(drv, addr, nat, dev, oks)
       IN  last' = [op |-> "check_device", args |-> [addr |-> addr],
                    pre |-> life, exc |-> r.exc, ret |-> <<r.ack>>, calls |-> r.calls]
    /\ UNCHANGED <<platform, baudrate, dll, life, driver_name, drv, nat, dev, nops, enc>>

\* The life of one I2C object: every way of constructing it, then any
\* sequence of calls, each with one fixed payload.
Next ==
    \/ \E id \in Ids(platform), driver \in DriverArgs, env \in EnvValues,
          freq \in Freqs, auto_init \in BOOLEAN, lib_ok \in BOOLEAN,
          oks \in Booleans2 :
            Construct(id, driver, env, freq, auto_init, lib_ok, oks)
    \/ \E oks \in Booleans2 : InitBus(oks)
    \/ \E ok \in BOOLEAN : Deinit(<<ok>>)
    \/ \E addr \in Addrs, ok \in BOOLEAN : ReadFrom(addr, 1, ok)
    \/ \E addr \in Addrs, ok \in BOOLEAN : WriteTo(addr, <<16, 85>>, ok)
    \/ \E addr \in Addrs, memaddr \in Memaddrs, ok \in BOOLEAN :
            ReadFromMem(addr, memaddr, 1, 8, ok)
    \/ \E addr \in Addrs, ok \in BOOLEAN : WriteToMem(addr, 16, <<85>>, 8, ok)
    \/ \E start \in ScanStarts, stop \in ScanStops, fail_at \in ScanStarts,
          oks \in ScanOutcomes(drv) :
            Scan(start, stop, fail_at, oks)
    \/ \E addr \in CheckAddrs, oks \in Booleans3 : CheckDevice(addr, oks)

Spec == Init /\ [][Next]_vars

\* An initialized I2C object of either driver, then at most MaxOps memory
\* writes and reads, of every payload within the bounds, to the peripheral
\* on the bus; the vendor library succeeds.
NextMem ==
    \/ \E driver \in {Some(Ch341Name), Some(Ch347Name)} :
            Construct(None, driver, None, 400000, TRUE, TRUE, <<TRUE, TRUE>>)
    \/ \E memaddr \in Memaddrs, nbytes \in 1..MaxData, addrsize \in OpAddrsizes :
            CountedReadFromMem(dev.addr, memaddr, nbytes, addrsize, TRUE)
    \/ \E memaddr \in Memaddrs, buf \in Datas, addrsize \in OpAddrsizes :
            CountedWriteToMem(dev.addr, memaddr, buf, addrsize, TRUE)

SpecMem == Init /\ [][NextMem]_vars

\* memaddr_to_bytes(memaddr, addrsize), applied on its own
CallMemaddrToBytes(memaddr, addrsize) ==
    /\ ~enc.called
    /\ enc' = [called |-> TRUE, memaddr |-> memaddr, addrsize |-> addrsize,
               out |-> memaddr_to_bytes(memaddr, addrsize)]
    /\ UNCHANGED <<platform, baudrate, dll, life, driver_name, drv, nat, dev, last, nops>>

NextEnc ==
    \E memaddr \in EncMemaddrs, addrsize \in EncAddrsizes :
        CallMemaddrToBytes(memaddr, addrsize)

SpecEnc == Init /\ [][NextEnc]_vars

\* An I2C object of either driver constructed with any bus frequency, then
\* init(), deinit() and reads in any order.
NextFreq ==
    \/ \E driver \in {Some(Ch341Name), Some(Ch347Name)}, freq \in BusFreqs,
          auto_init \in BOOLEAN, oks \in Booleans2 :
            Construct(None, driver, None, freq, auto_init, TRUE, oks)
    \/ \E oks \in Booleans2 : InitBus(oks)
    \/ \E ok \in BOOLEAN : Deinit(<<ok>>)
    \/ \E ok \in BOOLEAN : ReadFrom(dev.addr, 1, ok)

SpecFreq == Init /\ [][NextFreq]_vars

\* dll.load() of a driver package, run on its own against one library
LoadDll(cls, exports) ==
    /\ ~dll.loaded
    /\ dll' = [loaded |-> TRUE, cls |-> cls, exports |-> exports,
               out |-> dll_load(cls, platform, exports)]
    /\ UNCHANGED <<platform, baudrate, life, driver_name, drv, nat, dev, last, nops, enc>>

NextDll ==
    \E cls \in {"CH341", "CH347"} : \E exports \in LibExports(cls) :
        LoadDll(cls, exports)

SpecDll == Init /\ [][NextDll]_vars

\* An initialized I2C object of either driver; writes that set the
\* peripheral's address register and store data behind it, and reads of
\* 0 .. MaxData bytes, into a fresh buffer or into the caller's.
NextRead ==
    \/ \E driver \in {Some(Ch341Name), Some(Ch347Name)} :
            Construct(None, driver, None, 400000, TRUE, TRUE, <<TRUE, TRUE>>)
    \/ \E buf \in SeedWrites : WriteTo(dev.addr, buf, TRUE)
    \/ \E addr \in Addrs, nbytes \in 0..MaxData, ok \in BOOLEAN :
            ReadFrom(addr, nbytes, ok)
    \/ \E addr \in Addrs, buf \in CallerBufs, ok \in BOOLEAN :
            ReadFromInto(addr, buf, ok)

SpecRead == Init /\ [][NextRead]_vars

\* An initialized I2C object of either driver, then one write and one read
\* (or the read alone), as the memory tests make them: to addresses over the
\* whole 7-bit range, the vendor library succeeding or failing.
XferWriteTurn == last.op = "I2C"

XferReadTurn == last.op \in {"I2C", "writeto", "writeto_mem"}

NextXfer ==
    \/ \E driver \in {Some(Ch341Name), Some(Ch347Name)} :
            Construct(None, driver, None, 400000, TRUE, TRUE, <<TRUE, TRUE>>)
    \/ /\ XferWriteTurn
       /\ \E addr \in XferAddrs, buf \in Datas, ok \in BOOLEAN : WriteTo(addr, buf, ok)
    \/ /\ XferWriteTurn
       /\ \E addr \in MemXferAddrs, memaddr \in Memaddrs, buf \in Datas,
             addrsize \in OpAddrsizes, ok \in BOOLEAN :
               WriteToMem(addr, memaddr, buf, addrsize, ok)
    \/ /\ XferReadTurn
       /\ \E addr \in XferAddrs, buf \in CallerBufs, ok \in BOOLEAN :
               ReadFromInto(addr, buf, ok)
    \/ /\ XferReadTurn
       /\ \E addr \in MemXferAddrs, memaddr \in Memaddrs, addrsize \in OpAddrsizes,
             ok \in BOOLEAN :
               ReadFromMem(addr, memaddr, 1, addrsize, ok)

SpecXfer == Init /\ [][NextXfer]_vars

(***************************************************************************)
(* Claims.                                                                 *)
(***************************************************************************)
\* the device node an id designates: the default is device 0, an int is an
\* index, a str on POSIX is the path itself
DesignatedNode(id, plat) ==
    IF plat = "nt"
    THEN IdInt(IF id = None THEN 0 ELSE The(id).n)
    ELSE IdStr(IF id = None THEN "/dev/ch34x_pis0"
               ELSE IF The(id).t = "int" THEN "/dev/ch34x_pis" \o Str(The(id).n)
               ELSE The(id).s)

NodePresent(node, plat) ==
    IF plat = "nt" THEN node.n \in NtNodes
    ELSE \E k \in 1..Len(PosixNodes) : PosixNodes[k] = node.s

\* the calls of the vendor library whose zero return _check_ret is given
CheckedFns == {"SetStream", "StreamI2C", "WriteData", "WriteRead", "CloseDevice"}

SomeCallFailed(calls) ==
    \E k \in 1..Len(calls) : calls[k].fn \in CheckedFns /\ calls[k].ret = 0

BusOps == {"scan", "readfrom", "writeto", "readfrom_mem", "writeto_mem"}

\* C1: writeto_mem(addr, memaddr, data, addrsize=s) followed by
\* readfrom_mem(addr, memaddr, len(data), addrsize=s), on the memory device
\* with s-bit addresses and memaddr below 2^s, returns exactly data, for
\* every driver.
C1_MemRoundTrip ==
    (/\ last.op = "readfrom_mem"
     /\ last.args.after # None
     /\ last.args.addr = dev.addr
     /\ last.args.addrsize = dev.width
     /\ last.args.memaddr < 2 ^ dev.width
     /\ The(last.args.after).addr = last.args.addr
     /\ The(last.args.after).memaddr = last.args.memaddr
     /\ The(last.args.after).addrsize = last.args.addrsize
     /\ Len(The(last.args.after).buf) = last.args.nbytes)
    => (last.exc = "none" /\ last.ret = The(last.args.after).buf)

\* C2: whenever a vendor-library call made by an operation (set stream,
\* stream transfer, write data, write-read, close device) returns zero, the
\* operation raises I2COperationFailedError, for both drivers.
C2_FailureRaisesOperationFailed ==
    SomeCallFailed(last.calls) => last.exc = "I2COperationFailedError"

\* C3: constructing I2C (auto_init) with an id that designates no device the
\* library can open raises I2COperationFailedError, whichever driver is
\* selected and on both platforms.
C3_InvalidDeviceRaises ==
    (/\ last.op = "I2C"
     /\ last.args.auto_init
     /\ \E k \in 1..Len(last.calls) : last.calls[k].fn = "OpenDevice"
     /\ ~NodePresent(DesignatedNode(last.args.id, platform), platform))
    => last.exc = "I2COperationFailedError"

\* C4: scan(start, stop) on an initialized bus whose vendor-library calls
\* succeed returns exactly the addresses in start..stop that acknowledge,
\* ascending and without duplicates.
C4_ScanReturnsAcking ==
    (last.op = "scan" /\ last.pre = "inited" /\ ~SomeCallFailed(last.calls))
    => /\ last.exc = "none"
       /\ \A k \in 1..Len(last.ret) :
            /\ last.ret[k] \in last.args.start..last.args.stop
            /\ last.ret[k] = dev.addr
            /\ \A j \in 1..(k - 1) : last.ret[j] < last.ret[k]
       /\ \A a \in last.args.start..last.args.stop :
            a = dev.addr => \E k \in 1..Len(last.ret) : last.ret[k] = a

\* C5: after deinit() has closed the bus, every bus operation (scan,
\* readfrom, writeto, readfrom_mem, writeto_mem) raises
\* I2COperationFailedError until init() is called again.
C5_ClosedBusRaises ==
    (last.op \in BusOps /\ last.pre = "closed")
    => last.exc = "I2COperationFailedError"

\* C6: memaddr_to_bytes raises I2CMemoryAddressSizeError if and only if
\* addrsize is not one of 8, 16, 24, 32, and raises nothing else.
C6_RaisesIffBadSize ==
    enc.called =>
        /\ enc.out.exc \in {"none", "I2CMemoryAddressSizeError"}
        /\ (enc.out.exc = "I2CMemoryAddressSizeError")
            <=> (enc.addrsize \notin {8, 16, 24, 32})

C6_Witness ==
    enc.called /\ enc.addrsize = -8 /\ enc.out.exc = "I2CMemoryAddressSizeError"

\* memaddr mod 2^addrsize for 0 <= memaddr < 2^31 (2^32 is above every
\* address applied here)
ModPow2(memaddr, addrsize) ==
    IF addrsize > 30 THEN memaddr ELSE memaddr % (2 ^ addrsize)

\* C7: for addrsize in {8, 16, 24, 32} and memaddr >= 0, memaddr_to_bytes
\* returns addrsize/8 bytes holding memaddr mod 2^addrsize, most significant
\* byte first.
C7_BigEndianTruncated ==
    (enc.called /\ enc.addrsize \in {8, 16, 24, 32} /\ enc.memaddr >= 0) =>
        /\ enc.out.exc = "none"
        /\ Len(enc.out.val) = enc.addrsize \div 8
        /\ \A k \in 1..Len(enc.out.val) : enc.out.val[k] \in 0..255
        /\ BigEndian(enc.out.val) = ModPow2(enc.memaddr, enc.addrsize)

\* 0x7B3EC52A at 24 bits is 3E C5 2A
C7_Witness ==
    /\ enc.called
    /\ enc.memaddr = 2067711274
    /\ enc.addrsize = 24
    /\ enc.out.val = <<62, 197, 42>>

\* l is s with its upper-case ASCII letters made lower-case
IsLowerOf(l, s) ==
    /\ Len(l) = Len(s)
    /\ \A k \in 1..Len(s) :
        l[k] = IF s[k] \in 65..90 THEN s[k] + 32 ELSE s[k]

\* the name the precedence picks: the argument, else the environment, else "ch341"
PickedName(a) ==
    IF a.driver # None /\ Len(The(a.driver)) > 0 THEN The(a.driver)
    ELSE IF a.env # None /\ Len(The(a.env)) > 0 THEN The(a.env)
    ELSE <<99, 104, 51, 52, 49>>

\* C8: the driver is chosen by precedence (the driver argument if given and
\* non-empty, else I2CPY_DRIVER if defined and non-empty, else "ch341") and
\* lower-cased before i2cpy.driver.<name> is resolved.
C8_DriverPrecedence ==
    last.op = "I2C" =>
        /\ Len(last.calls) >= 1
        /\ last.calls[1].fn = "import_module"
        /\ IsLowerOf(last.calls[1].args[1], PickedName(last.args))
        /\ life # "absent" => driver_name = last.calls[1].args[1]

\* driver="" and I2CPY_DRIVER="CH347" give the CH347 driver
C8_Witness ==
    /\ last.op = "I2C"
    /\ last.args.driver = Some(<<>>)
    /\ last.args.env = Some(<<67, 72, 51, 52, 55>>)
    /\ life # "absent"
    /\ drv.cls = "CH347"

\* the modules under i2cpy.driver: ch341, ch347, abc
DriverPackage == {<<99, 104, 51, 52, 49>>, <<99, 104, 51, 52, 55>>, <<97, 98, 99>>}

C10_OpensDesignatedDevice ==
    (platform = "posix" /\ last.op = "I2C") =>
        \A k \in 1..Len(last.calls) :
            last.calls[k].fn = "OpenDevice" =>
                last.calls[k].args[1] = DesignatedNode(last.args.id, platform)

\* the stream speed code of a bus frequency
SpeedCode(freq) ==
    CASE freq < 100000 -> 0
      [] freq >= 100000 /\ freq < 400000 -> 1
      [] freq >= 400000 /\ freq < 750000 -> 2
      [] freq >= 750000 -> 3

\* C11: once init() has succeeded, and so before any transfer on the
\* initialized bus, the native stream speed is the code selected from the
\* freq given to the constructor (0 below 100 kHz, 1 below 400 kHz, 2 below
\* 750 kHz, 3 from 750 kHz on), for every driver and platform.
C11_InitSetsSpeed ==
    life = "inited" => nat.speed = Some(SpeedCode(baudrate))

\* the constructor got as far as creating the driver object
DriverCreated ==
    /\ last.op = "I2C"
    /\ last.calls[1].ret = 1
    /\ last.calls[1].args[1] \in {<<99, 104, 51, 52, 49>>, <<99, 104, 51, 52, 55>>}

\* the entries of a call log that open a device
OpenCalls(calls) == {k \in 1..Len(calls) : calls[k].fn = "OpenDevice"}

\* with auto_init the constructor runs the driver's init once, and without it
\* it leaves the vendor library alone
C12_Constructor ==
    DriverCreated =>
        IF last.args.auto_init
        THEN /\ Cardinality(OpenCalls(last.calls)) = 1
             /\ last.calls[2].fn = "OpenDevice"
        ELSE /\ Len(last.calls) = 1
             /\ nat = [open |-> {}, speed |-> None]
             /\ last.exc = "none"
             /\ life = "constructed"

\* an init() that follows a construction without auto_init does what the
\* same construction with auto_init would have done, given the same answers
\* of the vendor library
C12_LaterInit ==
    (/\ last.op = "I2C"
     /\ ~last.args.auto_init
     /\ last.exc = "none"
     /\ last'.op = "init")
    => \E oks \in Booleans2 :
         LET r == I2C_new(last.args.id, last.args.driver, last.args.env,
                          last.args.freq, TRUE, platform, nat, TRUE, oks)
         IN  /\ Tail(r.calls) = last'.calls
             /\ r.exc = last'.exc
             /\ r.exc = "none" =>
                  /\ life' = r.life
                  /\ drv' = r.drv
                  /\ nat' = r.nat
                  /\ driver_name' = r.name
                  /\ baudrate' = last.args.freq

\* C12: with auto_init true the constructor calls the driver's init exactly
\* once before it returns; with auto_init false it makes no native device
\* call, and a later init() leaves the object in the state construction with
\* auto_init true leaves it in.
C12_InitNowOrLater == []C12_Constructor /\ [][C12_LaterInit]_vars

\* a CH341 object constructed without auto_init and then initialized
C12_Witness ==
    /\ last.op = "init"
    /\ last.pre = "constructed"
    /\ last.exc = "none"
    /\ life = "inited"
    /\ drv.cls = "CH341"
    /\ nat.open # {}
    /\ nat.speed = Some(drv.baudrate)

\* what a read of n bytes from addr finds on the bus: the peripheral's memory
\* from its address register on, or FF from an address nobody answers
Delivered(addr, n) ==
    [k \in 1..n |-> IF addr = dev.addr THEN MemAt(dev.mem, dev.ptr + k - 1) ELSE 255]

\* the length a read asked for
AskedLen ==
    IF last.op = "readfrom" THEN last.args.nbytes ELSE Len(last.args.buf)

\* C13: readfrom(addr, nbytes) and readfrom_into(addr, buf) ask the vendor
\* library for exactly nbytes (len(buf)) bytes in one transfer, and what
\* they return (leave in buf) is those bytes as the transfer delivered them,
\* for every length from 0 on.
C13_ReadReturnsDelivered ==
    last.op \in {"readfrom", "readfrom_into"} =>
        /\ Len(last.calls) = 1
        /\ last.calls[1].fn = "StreamI2C"
        /\ last.calls[1].args[4] = AskedLen
        /\ last.exc = "none" =>
            /\ Len(last.ret) = AskedLen
            /\ last.ret = Delivered(last.args.addr, AskedLen)

\* two bytes read back from where AA 55 .. or 55 AA was stored
C13_Witness ==
    /\ last.op = "readfrom"
    /\ last.exc = "none"
    /\ last.args.nbytes = 2
    /\ last.ret = <<85, 170>>

\* the entries of a call log that send the command cmd ("START" or "STOP")
Commands(calls, cmd) ==
    {k \in 1..Len(calls) : calls[k].fn = "WriteData" /\ calls[k].args[2] = cmd}

\* C16: check_device issues START, then the address byte, then STOP; once
\* START has succeeded a STOP is issued before check_device returns or
\* raises, also when sending the address byte fails; when START fails
\* neither the address byte nor STOP is sent.
C16_StartByteStop ==
    last.op = "check_device" =>
        LET c == last.calls
        IN  /\ Len(c) >= 1
            /\ Commands(c, "START") = {1}
            /\ c[1].ret = 0 =>
                    /\ Len(c) = 1
                    /\ last.exc # "none"
            /\ c[1].ret # 0 =>
                    /\ Commands(c, "STOP") = {Len(c)}
                    /\ \A k \in 2..(Len(c) - 1) : k = 2 /\ c[k].fn = "WriteRead"
                    /\ (\E k \in 1..Len(c) : c[k].fn = "WriteRead" /\ c[k].ret = 0)
                        => last.exc # "none"

\* the address byte was refused by the library and STOP went out all the same
C16_Witness ==
    /\ last.op = "check_device"
    /\ last.exc # "none"
    /\ Len(last.calls) = 3
    /\ last.calls[1].ret = 1
    /\ last.calls[2].fn = "WriteRead"
    /\ last.calls[2].ret = 0
    /\ last.calls[3].args[2] = "STOP"

\* the four calls that transfer, and those of them that take a memory address
XferOps == {"writeto", "writeto_mem", "readfrom_into", "readfrom_mem"}

MemOps == {"writeto_mem", "readfrom_mem"}

\* a call whose arguments are in range: a 7-bit address and, with a memory
\* address, one that fits the address size (the sizes used are 8 and 16)
XferArgsValid ==
    /\ last.args.addr \in 0..127
    /\ last.op \in MemOps =>
            /\ last.args.addrsize \in {8, 16, 24}
            /\ last.args.memaddr \in 0..(2 ^ last.args.addrsize - 1)

\* C17: a call of writeto, writeto_mem, readfrom_into or readfrom_mem_into
\* makes exactly one native stream transfer, also when that fails; its write
\* buffer starts with the byte addr << 1, bit 0 clear, followed for writeto by
\* the data (read length 0) and for writeto_mem by the memory address, most
\* significant byte first, and then the data.
C17_OneTransfer ==
    (last.op \in XferOps /\ XferArgsValid) =>
        /\ Len(last.calls) = 1
        /\ last.calls[1].fn = "StreamI2C"
        /\ LET wbuf == last.calls[1].args[3]
               rlen == last.calls[1].args[4]
               nm   == last.args.addrsize \div 8
           IN  /\ last.calls[1].args[2] = Len(wbuf)
               /\ Len(wbuf) >= 1
               /\ wbuf[1] = 2 * last.args.addr
               /\ last.op = "writeto" =>
                    Tail(wbuf) = last.args.buf /\ rlen = 0
               /\ last.op = "writeto_mem" =>
                    /\ Len(wbuf) = 1 + nm + Len(last.args.buf)
                    /\ BigEndian(SubSeq(wbuf, 2, 1 + nm)) = last.args.memaddr
                    /\ SubSeq(wbuf, 2 + nm, Len(wbuf)) = last.args.buf
                    /\ rlen = 0

OwnPrefix(cls) == IF cls = "CH341" THEN "CH341" ELSE "CH347"

\* C15: on POSIX, when the library exports its functions only under the
\* CH34x prefix, after load() every name of the driver's own prefix that the
\* driver calls (open device, close device, set stream, stream I2C, write
\* data, write-read) is resolvable on the library object.
C15_OwnNamesResolvable ==
    (/\ dll.loaded
     /\ platform = "posix"
     /\ dll.exports = Ch34xNames
     /\ dll.out.exc = "none")
    => \A name \in driver_called(dll.cls, platform) :
            name[1] = OwnPrefix(dll.cls) => name \in dll.out.attrs

====
